---- MODULE Spec2Model ----
(***************************************************************************)
(* Model of the TradingView -> Bybit webhook bridge (src/main.py).         *)
(*                                                                         *)
(* Strings are sequences of one-character strings.  Quantities, prices and *)
(* equity are whole numbers; a raw quantity is the exact fraction          *)
(* <<numerator, denominator>>.                                             *)
(***************************************************************************)
EXTENDS Integers, Sequences, FiniteSets, TLC

(***************************************************************************)
(* Bounds of the model.                                                    *)
(***************************************************************************)
MaxParts == 4

MaxPos == 2

MaxEquity == 4

VARIABLES
  TV_TOKEN,      \* configured shared secret ("" when unset)
  bybit,         \* TRUE when the exchange session exists, FALSE for None
  last_payload,  \* <<>> for None, else <<data>>
  last_result,   \* <<>> for None, else <<result>>
  position,      \* exchange side: signed position per symbol
  pc,            \* where the running handler is; "idle" when none runs
  data,          \* the JSON body of the request being (or last) handled
  symbol,        \* handler local
  action,        \* handler local
  pos,           \* handler local: first position read (LONG / SHORT branch)
  cpos,          \* local of close_full_position: its own position read
  equity,        \* local of calc_qty: <<>> until read, then <<value>>
  price,         \* local of calc_qty: <<>> until read, then <<value>>
  lot_rule,      \* local of calc_qty: <<>> until read, then <<rules>>
  qty,           \* handler local: the sized quantity
  calls,         \* exchange calls (and the sleep) of this handling, in order
  response,      \* HTTP response of the handling
  disturbed,     \* the position moved other than by this handling's orders
  fnArg,         \* argument of the pure-function specifications; the
                 \* market's steady equity and price in SpecExposure
  fnRes          \* their successive results

vars == <<TV_TOKEN, bybit, last_payload, last_result, position, pc, data,
          symbol, action, pos, cpos, equity, price, lot_rule, qty, calls,
          response, disturbed, fnArg, fnRes>>

handlerVars == <<TV_TOKEN, bybit, last_payload, last_result, position, pc,
                 data, symbol, action, pos, cpos, equity, price, lot_rule, qty,
                 calls, response, disturbed>>

fnVars == <<fnArg, fnRes>>

(***************************************************************************)
(* String helpers (Python str methods used by the source).                 *)
(***************************************************************************)
Whitespace == {" "}

LowerLetters ==
  <<"a", "b", "c", "d", "e", "f", "g", "h", "i", "j", "k", "l", "m",
    "n", "o", "p", "q", "r", "s", "t", "u", "v", "w", "x", "y", "z">>

UpperLetters ==
  <<"A", "B", "C", "D", "E", "F", "G", "H", "I", "J", "K", "L", "M",
    "N", "O", "P", "Q", "R", "S", "T", "U", "V", "W", "X", "Y", "Z">>

\* str.upper() on one character of the alphabet the model uses
UpperChar(c) ==
  IF \E i \in 1..Len(LowerLetters) : LowerLetters[i] = c
  THEN UpperLetters[CHOOSE i \in 1..Len(LowerLetters) : LowerLetters[i] = c]
  ELSE c

Upper(s) == [i \in 1..Len(s) |-> UpperChar(s[i])]

RECURSIVE LStrip(_)
LStrip(s) ==
  IF s # <<>> /\ Head(s) \in Whitespace THEN LStrip(Tail(s)) ELSE s

RECURSIVE RStripSet(_, _)
RStripSet(s, cs) ==
  IF s # <<>> /\ s[Len(s)] \in cs
  THEN RStripSet(SubSeq(s, 1, Len(s) - 1), cs)
  ELSE s

Strip(s) == RStripSet(LStrip(s), Whitespace)

EndsWith(s, suf) ==
  /\ Len(s) >= Len(suf)
  /\ SubSeq(s, Len(s) - Len(suf) + 1, Len(s)) = suf

DropLast(s, n) == SubSeq(s, 1, Len(s) - n)

(***************************************************************************)
(* clean_symbol                                                            *)
(***************************************************************************)
SufDotP == <<".", "P">>

SufDotPerp == <<".", "P", "E", "R", "P">>

SufPerp == <<"P", "E", "R", "P">>

\* The candidate list in the order the loop visits it.
Suffixes == <<SufDotP, SufDotPerp, SufPerp>>

\* One iteration of the loop body: strip suf when s ends with it.
StripSuffix(s, suf) == IF EndsWith(s, suf) THEN DropLast(s, Len(suf)) ELSE s

RECURSIVE StripLoop(_, _)
StripLoop(s, i) ==
  IF i > Len(Suffixes) THEN s ELSE StripLoop(StripSuffix(s, Suffixes[i]), i + 1)

clean_symbol(sym) == StripLoop(Upper(Strip(sym)), 1)

(***************************************************************************)
(* fmt_number on whole, non-negative quantities: "%.10f", then             *)
(* rstrip("0"), then rstrip("."), and "0" for an empty result.             *)
(***************************************************************************)
DigitChar(d) == <<"0", "1", "2", "3", "4", "5", "6", "7", "8", "9">>[d + 1]

RECURSIVE IntDigits(_)
IntDigits(n) ==
  IF n < 10 THEN <<DigitChar(n)>>
  ELSE Append(IntDigits(n \div 10), DigitChar(n % 10))

FmtDecimals == 10

Fixed10(x) == IntDigits(x) \o <<".">> \o [i \in 1..FmtDecimals |-> "0"]

fmt_number(x) ==
  LET s == RStripSet(RStripSet(Fixed10(x), {"0"}), {"."})
  IN IF s # <<>> THEN s ELSE <<"0">>

(***************************************************************************)
(* Sizing: round_down_to_step and calc_qty.                                *)
(***************************************************************************)
LEVERAGE == 3

\* RISK_FRACTION = 0.5 as the fraction RiskNum / RiskDen
RiskNum == 1

RiskDen == 2

\* notional / price as an exact fraction <<numerator, denominator>>
raw_qty(eq, px) == <<eq * RiskNum * LEVERAGE, RiskDen * px>>

\* Variant: rounds up to the next multiple of step.
round_up_to_step(raw, step) ==
  ((raw[1] + raw[2] * step - 1) \div (raw[2] * step)) * step

\* math.floor(q / step) * step for q = raw[1] / raw[2] >= 0, step > 0
round_down_to_step(raw, step) == (raw[1] \div (raw[2] * step)) * step

Min(a, b) == IF a < b THEN a ELSE b

Abs(x) == IF x < 0 THEN -x ELSE x

\* The lot rule as bybit_get_qty_rules returns it from a lotSizeFilter.
StepDefault == 1

qty_rules(lot) ==
  [min_qty |-> lot.minOrderQty,
   max_qty |-> lot.maxOrderQty,
   step    |-> IF lot.qtyStep <= 0 THEN StepDefault ELSE lot.qtyStep]

\* Variant: zero equity or price passes the guard.
cannot_size_strict(eq, px) == eq < 0 \/ px < 0

\* The equity/price guard of calc_qty.
cannot_size(eq, px) == eq <= 0 \/ px <= 0

\* Rounding and clamp of calc_qty.
sized_qty(eq, px, rules) ==
  LET q0 == round_down_to_step(raw_qty(eq, px), rules.step)
  IN IF rules.max_qty > 0 THEN Min(q0, rules.max_qty) ELSE q0

\* calc_qty on the values its three reads returned.
calc_qty(eq, px, rules) ==
  IF cannot_size(eq, px)
  THEN [ok |-> FALSE, status |-> 400, detail |-> "cannot fetch equity/price", qty |-> 0]
  ELSE LET q == sized_qty(eq, px, rules)
       IN IF q < rules.min_qty
          THEN [ok |-> FALSE, status |-> 400, detail |-> "qty too small after rounding", qty |-> q]
          ELSE [ok |-> TRUE, status |-> 200, detail |-> "", qty |-> q]

(***************************************************************************)
(* Values of the handler's state.                                          *)
(***************************************************************************)
APTUSDT == <<"A", "P", "T", "U", "S", "D", "T">>

\* The symbols the exchange account holds positions in.
ExchangeSymbols == {APTUSDT}

NoData == [token |-> <<>>, symbol |-> <<>>, action |-> <<>>]

NoResponse == [status |-> 0, body |-> "pending"]

HandlerIdle ==
  /\ pc = "idle"
  /\ data = NoData
  /\ symbol = <<>>
  /\ action = <<>>
  /\ pos = 0
  /\ cpos = 0
  /\ equity = <<>>
  /\ price = <<>>
  /\ lot_rule = <<>>
  /\ qty = 0
  /\ calls = <<>>
  /\ response = NoResponse
  /\ disturbed = FALSE

\* The state after module import: nothing received yet.  The secret, the
\* presence of credentials and the exchange's positions are whatever the
\* deployment has.
HandlerInit ==
  /\ TV_TOKEN \in {<<>>, <<"s">>}
  /\ bybit \in BOOLEAN
  /\ last_payload = <<>>
  /\ last_result = <<>>
  /\ position \in [ExchangeSymbols -> -MaxPos..MaxPos]
  /\ HandlerIdle

\* The handler state while a pure-function specification runs.
HandlerOff ==
  /\ TV_TOKEN = <<>>
  /\ bybit = FALSE
  /\ last_payload = <<>>
  /\ last_result = <<>>
  /\ position = [s \in ExchangeSymbols |-> 0]
  /\ HandlerIdle

(***************************************************************************)
(* Request bodies.  A JSON field is <<>> when absent and <<value>> when     *)
(* present; data.get(key, default) is Get.                                 *)
(***************************************************************************)
Get(field, default) == IF field = <<>> THEN default ELSE field[1]

A_LONG == <<"L", "O", "N", "G">>

A_SHORT == <<"S", "H", "O", "R", "T">>

A_CLOSE == <<"C", "L", "O", "S", "E">>

A_CLOSE_LONG == <<"C", "L", "O", "S", "E", "_", "L", "O", "N", "G">>

A_CLOSE_SHORT == <<"C", "L", "O", "S", "E", "_", "S", "H", "O", "R", "T">>

A_STOP_LONG == <<"S", "T", "O", "P", "_", "L", "O", "N", "G">>

A_STOP_SHORT == <<"S", "T", "O", "P", "_", "S", "H", "O", "R", "T">>

A_SCALE_IN == <<"S", "C", "A", "L", "E", "_", "I", "N">>

\* Variant: an unrecognised action falls into the close branch.
CloseActionsWide ==
  {A_CLOSE, A_CLOSE_LONG, A_STOP_LONG, A_STOP_SHORT, A_CLOSE_SHORT, A_SCALE_IN}

\* The tuple tested at src/main.py:258.
CloseActions == {A_CLOSE, A_CLOSE_LONG, A_STOP_LONG, A_STOP_SHORT, A_CLOSE_SHORT}

PayloadTokens == {<<>>, <<<<"s">>>>, <<<<"S">>>>}

PayloadSymbols == {<<>>, <<<<"a", "p", "t", "u", "s", "d", "t", ".", "p">>>>}

PayloadActions ==
  {<<>>, <<<<"c", "l", "o", "s", "e">>>>, <<A_LONG>>, <<A_SHORT>>, <<A_SCALE_IN>>}
    \cup {<<a>> : a \in CloseActions}

Payloads == [token : PayloadTokens, symbol : PayloadSymbols, action : PayloadActions]

\* Variant: another default symbol.
DefaultSymbolOther == <<"B", "T", "C", "U", "S", "D", "T">>

\* The default of data.get("symbol", ...) at src/main.py:228.
DefaultSymbol == APTUSDT

\* Variant: the receiver-only test never fires.
bybit_never_none == FALSE

\* "bybit is None" at src/main.py:224.
bybit_is_none == ~bybit

\* Variant: the token is compared without regard to case.
require_token_nocase(d) ==
  LET token == Get(d.token, <<>>)
  IN ~(TV_TOKEN # <<>> /\ Upper(token) # Upper(TV_TOKEN))

\* require_token: TRUE when no HTTPException(401) is raised.
require_token(d) ==
  LET token == Get(d.token, <<>>)
  IN ~(TV_TOKEN # <<>> /\ token # TV_TOKEN)

(***************************************************************************)
(* The exchange as the handler sees it.                                    *)
(***************************************************************************)
\* The responses get_positions can give for a signed position c.
PositionResponses(c) ==
  IF c = 0 THEN {<<>>, <<[size |-> 0, side |-> ""]>>}
  ELSE {<<[size |-> Abs(c), side |-> IF c > 0 THEN "Buy" ELSE "Sell"]>>}

LowerSide(side) ==
  CASE side = "Buy" -> "buy" [] side = "Sell" -> "sell" [] OTHER -> side

\* Variant: the side of the position is ignored.
bybit_get_position_size_unsigned(pos_list) ==
  IF pos_list = <<>> THEN 0 ELSE pos_list[1].size

\* bybit_get_position_size on the response of get_positions
bybit_get_position_size(pos_list) ==
  IF pos_list = <<>> THEN 0
  ELSE LET p == pos_list[1]
       IN IF LowerSide(p.side) = "sell" THEN -p.size ELSE p.size

\* Values the wallet and ticker reads can return: with the price 3, equity 2
\* sizes a raw quantity of 1 and MaxEquity one of at least 2.
Equities == {0, 2, MaxEquity}

Prices == {0, 3}

\* instruments_info: an empty list, or one instrument's lotSizeFilter.
LotFilters == [minOrderQty : 0..1, maxOrderQty : 0..1, qtyStep : {0, 2}]

InstrumentLists == {<<>>} \cup {<<lot>> : lot \in LotFilters}

\* The exchange accepts a market order when it can act on it: a positive
\* quantity, a reduce-only order only against an opposing position, and a
\* resulting position within the model's range.
Signed(side, q) == IF side = "Buy" THEN q ELSE -q

Fill(c, side, q, reduce_only) ==
  IF reduce_only
  THEN IF side = "Buy" THEN Min(0, c + q) ELSE -Min(0, -c + q)
  ELSE c + Signed(side, q)

Accepts(c, side, q, reduce_only) ==
  /\ q > 0
  /\ reduce_only => (IF side = "Buy" THEN c < 0 ELSE c > 0)
  /\ Fill(c, side, q, reduce_only) \in -MaxPos..MaxPos

(***************************************************************************)
(* The log of one handling.                                                *)
(***************************************************************************)
Call(op, ok) ==
  [op |-> op, symbol |-> symbol, side |-> "", qty |-> <<>>, reduceOnly |-> FALSE, ok |-> ok]

\* place_market: the order as handed to place_order, qty through fmt_number
place_market(sym, side, q, reduce_only, ok) ==
  [op |-> "place_order", symbol |-> sym, side |-> side, orderType |-> "Market",
   qty |-> fmt_number(q), reduceOnly |-> reduce_only, ok |-> ok]

SleepEntry ==
  [op |-> "sleep", symbol |-> <<>>, side |-> "", qty |-> <<>>, reduceOnly |-> FALSE, ok |-> TRUE]

\* The handler returns or raises: the response is determined.
Finish(status, body) ==
  /\ response' = [status |-> status, body |-> body]
  /\ pc' = "done"

\* Variant: the call that raised is made again.
RetrySameCall == UNCHANGED <<pc, response>>

\* An exchange call raised: "except Exception" turns it into a 500.
Raise500 == Finish(500, "gateway error")

\* The values stored in last_result (src/main.py:225, 244, 255, 260, 263).
ReceiverOnlyResult ==
  <<[kind |-> "receiver_only", action |-> <<>>, symbol |-> <<>>, qty |-> 0, bybit |-> ""]>>

OpenResult(q) ==
  <<[kind |-> "open", action |-> action, symbol |-> symbol, qty |-> q, bybit |-> "order response"]>>

CloseResult(resp) ==
  <<[kind |-> "close", action |-> action, symbol |-> symbol, qty |-> 0, bybit |-> resp]>>

IgnoredResult(act) ==
  <<[kind |-> "ignored", action |-> act, symbol |-> <<>>, qty |-> 0, bybit |-> ""]>>

(***************************************************************************)
(* handle_webhook, one action per exchange call.  The handler never awaits *)
(* after reading the body, so one handling runs at a time; what moves      *)
(* between its calls is the exchange (ExternalFill).                       *)
(***************************************************************************)

\* src/main.py:218-229: body, require_token, last_payload, receiver-only
\* short circuit, symbol and action.
HandleWebhook(d) ==
  /\ pc = "idle"
  /\ data' = d
  /\ IF ~require_token(d)
     THEN /\ Finish(401, "bad token")
          /\ symbol' = <<>> /\ action' = <<>>
          /\ UNCHANGED <<last_payload, last_result>>
     ELSE /\ last_payload' = <<d>>
          /\ IF bybit_is_none
             THEN /\ last_result' = ReceiverOnlyResult
                  /\ Finish(200, "receiver_only")
                  /\ symbol' = <<>> /\ action' = <<>>
             ELSE /\ symbol' = clean_symbol(Get(d.symbol, DefaultSymbol))
                  /\ action' = Upper(Get(d.action, <<>>))
                  /\ response' = NoResponse
                  /\ pc' = "set_margin_mode"
                  /\ UNCHANGED last_result
  /\ UNCHANGED <<TV_TOKEN, bybit, position, pos, cpos, equity, price, lot_rule, qty,
                 calls, disturbed, fnVars>>

\* Variant: a failed configuration call raises out of its helper.
ConfigCallRaisesOnFailure(ok) == ~ok

\* src/main.py:79-82 and 86-94: "except Exception" around the configuration
\* call prints a warning, so the helper returns whether or not the call failed.
ConfigCallRaises(ok) == FALSE

\* src/main.py:74-82 called at 232: the exception is caught and printed.
BybitSetIsolatedMarginMode ==
  /\ pc = "set_margin_mode"
  /\ \E ok \in BOOLEAN :
       /\ calls' = Append(calls, [Call("set_margin_mode", ok) EXCEPT !.symbol = <<>>])
       /\ IF ConfigCallRaises(ok)
          THEN Raise500
          ELSE pc' = "set_leverage" /\ UNCHANGED response
  /\ UNCHANGED <<TV_TOKEN, bybit, last_payload, last_result, position, data,
                 symbol, action, pos, cpos, equity, price, lot_rule, qty,
                 disturbed, fnVars>>

\* src/main.py:84-94 called at 233, then the dispatch on action (236, 247,
\* 258, 263-264) up to the next exchange call.
BybitSetLeverage ==
  /\ pc = "set_leverage"
  /\ \E ok \in BOOLEAN :
       /\ calls' = Append(calls, Call("set_leverage", ok))
       /\ IF ConfigCallRaises(ok)
          THEN Raise500 /\ UNCHANGED last_result
          ELSE IF action \in {A_LONG, A_SHORT}
          THEN pc' = "get_position" /\ UNCHANGED <<last_result, response>>
          ELSE IF action \in CloseActions
          THEN pc' = "close_get_position" /\ UNCHANGED <<last_result, response>>
          ELSE /\ last_result' = IgnoredResult(action)
               /\ Finish(200, "ignored")
  /\ UNCHANGED <<TV_TOKEN, bybit, last_payload, position, data, symbol, action,
                 pos, cpos, equity, price, lot_rule, qty, disturbed, fnVars>>

\* Variant: any open position is closed first, whatever its direction.
NeedsCloseAny(act, p) == p # 0

\* src/main.py:237-238 (LONG) and 248-249 (SHORT): the first position read.
NeedsClose(act, p) == IF act = A_LONG THEN p < 0 ELSE p > 0

GetPosition ==
  /\ pc = "get_position"
  /\ \/ /\ calls' = Append(calls, Call("get_positions", FALSE))
        /\ Raise500
        /\ UNCHANGED pos
     \/ \E r \in PositionResponses(position[symbol]) :
          /\ calls' = Append(calls, Call("get_positions", TRUE))
          /\ pos' = bybit_get_position_size(r)
          /\ pc' = IF NeedsClose(action, pos') THEN "close_get_position"
                   ELSE "get_equity"
          /\ UNCHANGED response
  /\ UNCHANGED <<TV_TOKEN, bybit, last_payload, last_result, position, data,
                 symbol, action, cpos, equity, price, lot_rule, qty, disturbed, fnVars>>

\* What follows close_full_position: the close family records and returns
\* (260-261), LONG and SHORT go on to the settlement delay (240, 251).
AfterClose(resp) ==
  IF action \in CloseActions
  THEN /\ last_result' = CloseResult(resp)
       /\ Finish(200, "bybit")
  ELSE /\ pc' = "sleep"
       /\ UNCHANGED <<last_result, response>>

\* src/main.py:204-206: close_full_position reads the position itself.
CloseGetPosition ==
  /\ pc = "close_get_position"
  /\ \/ /\ calls' = Append(calls, Call("get_positions", FALSE))
        /\ Raise500
        /\ UNCHANGED <<cpos, last_result>>
     \/ \E r \in PositionResponses(position[symbol]) :
          /\ calls' = Append(calls, Call("get_positions", TRUE))
          /\ cpos' = bybit_get_position_size(r)
          /\ IF cpos' = 0
             THEN AfterClose("no position to close")
             ELSE pc' = "close_place" /\ UNCHANGED <<last_result, response>>
  /\ UNCHANGED <<TV_TOKEN, bybit, last_payload, position, data, symbol, action,
                 pos, equity, price, lot_rule, qty, disturbed, fnVars>>

\* src/main.py:208-212: the reduce-only order against the position read.
CloseSide(p) == IF p > 0 THEN "Sell" ELSE "Buy"

ClosePlace ==
  /\ pc = "close_place"
  /\ LET side == CloseSide(cpos)
         q == Abs(cpos)
     IN \/ /\ calls' = Append(calls, place_market(symbol, side, q, TRUE, FALSE))
           /\ Raise500
           /\ UNCHANGED <<position, last_result>>
        \/ /\ Accepts(position[symbol], side, q, TRUE)
           /\ calls' = Append(calls, place_market(symbol, side, q, TRUE, TRUE))
           /\ position' = [position EXCEPT ![symbol] = Fill(@, side, q, TRUE)]
           /\ AfterClose("order response")
  /\ UNCHANGED <<TV_TOKEN, bybit, last_payload, data, symbol, action, pos, cpos,
                 equity, price, lot_rule, qty, disturbed, fnVars>>

\* src/main.py:240, 251: time.sleep(0.2)
Sleep ==
  /\ pc = "sleep"
  /\ calls' = Append(calls, SleepEntry)
  /\ pc' = "get_equity"
  /\ UNCHANGED <<TV_TOKEN, bybit, last_payload, last_result, position, data,
                 symbol, action, pos, cpos, equity, price, lot_rule, qty, response,
                 disturbed, fnVars>>

\* src/main.py:162 (96-109): the wallet read.
GetEquity ==
  /\ pc = "get_equity"
  /\ \/ /\ calls' = Append(calls, [Call("get_wallet_balance", FALSE) EXCEPT !.symbol = <<>>])
        /\ Raise500
        /\ UNCHANGED equity
     \/ \E e \in Equities :
          /\ calls' = Append(calls, [Call("get_wallet_balance", TRUE) EXCEPT !.symbol = <<>>])
          /\ equity' = <<e>>
          /\ pc' = "get_price"
          /\ UNCHANGED response
  /\ UNCHANGED <<TV_TOKEN, bybit, last_payload, last_result, position, data,
                 symbol, action, pos, cpos, price, lot_rule, qty, disturbed, fnVars>>

\* src/main.py:163-168 (111-117): the ticker read and the equity/price guard.
GetLastPrice ==
  /\ pc = "get_price"
  /\ \/ /\ calls' = Append(calls, Call("get_tickers", FALSE))
        /\ Raise500
        /\ UNCHANGED price
     \/ \E p \in Prices :
          /\ calls' = Append(calls, Call("get_tickers", TRUE))
          /\ price' = <<p>>
          /\ IF cannot_size(equity[1], p)
             THEN Finish(400, "cannot fetch equity/price")
             ELSE pc' = "get_rules" /\ UNCHANGED response
  /\ UNCHANGED <<TV_TOKEN, bybit, last_payload, last_result, position, data,
                 symbol, action, pos, cpos, equity, lot_rule, qty, disturbed, fnVars>>

\* src/main.py:173-185 (136-151): the instrument read, rounding, clamp and
\* minimum test.  On return qty is live and lot_rule records the rule qty was
\* sized against; a raised HTTPException carries calc_qty's values in its
\* detail.
GetQtyRules ==
  /\ pc = "get_rules"
  /\ \/ /\ calls' = Append(calls, Call("get_instruments_info", FALSE))
        /\ Raise500
        /\ UNCHANGED <<equity, price, lot_rule, qty>>
     \/ \E lst \in InstrumentLists :
          /\ calls' = Append(calls, Call("get_instruments_info", TRUE))
          /\ IF lst = <<>>
             THEN /\ Finish(400, "symbol not found in instruments_info")
                  /\ UNCHANGED <<equity, price, lot_rule, qty>>
             ELSE LET r == calc_qty(equity[1], price[1], qty_rules(lst[1]))
                  IN /\ qty' = r.qty
                     /\ lot_rule' = <<qty_rules(lst[1])>>
                     /\ IF r.ok
                        THEN /\ pc' = "open_place"
                             /\ equity' = <<>> /\ price' = <<>>
                             /\ UNCHANGED response
                        ELSE /\ Finish(r.status, r.detail)
                             /\ UNCHANGED <<equity, price>>
  /\ UNCHANGED <<TV_TOKEN, bybit, last_payload, last_result, position, data,
                 symbol, action, pos, cpos, disturbed, fnVars>>

\* Variant: every opening order buys.
OpenSideAlwaysBuy(act) == "Buy"

\* src/main.py:243-245 (LONG) and 254-256 (SHORT): the opening order.
OpenSide(act) == IF act = A_LONG THEN "Buy" ELSE "Sell"

OpenPlace ==
  /\ pc = "open_place"
  /\ LET side == OpenSide(action)
     IN \/ /\ calls' = Append(calls, place_market(symbol, side, qty, FALSE, FALSE))
           /\ Raise500
           /\ UNCHANGED <<position, last_result>>
        \/ /\ Accepts(position[symbol], side, qty, FALSE)
           /\ calls' = Append(calls, place_market(symbol, side, qty, FALSE, TRUE))
           /\ position' = [position EXCEPT ![symbol] = Fill(@, side, qty, FALSE)]
           /\ last_result' = OpenResult(qty)
           /\ Finish(200, "bybit")
  /\ UNCHANGED <<TV_TOKEN, bybit, last_payload, data, symbol, action, pos, cpos,
                 equity, price, lot_rule, qty, disturbed, fnVars>>

\* The exchange side moves on its own: fills, liquidations, orders of other
\* clients of the same account.  A move matters to a handling only when it
\* lands before a position read or before the reduce-only close, whose
\* effect depends on the position it meets; before any other step it
\* commutes with the step (an opening order adds to whatever position is
\* there), so it is taken before a handling or at one of those two points.
PositionSensitive == {"idle", "close_get_position", "close_place"}

ExternalFill ==
  /\ pc \in PositionSensitive
  /\ \E s \in ExchangeSymbols : \E c \in {position[s] - 1, position[s] + 1} :
       /\ c \in -MaxPos..MaxPos
       /\ position' = [position EXCEPT ![s] = c]
  /\ disturbed' = (pc # "idle")
  /\ UNCHANGED <<TV_TOKEN, bybit, last_payload, last_result, pc, data, symbol,
                 action, pos, cpos, equity, price, lot_rule, qty, calls, response, fnVars>>

\* The response leaves and the request's frame is gone; the event loop can
\* take the next request.
Respond ==
  /\ pc = "done"
  /\ pc' = "idle"
  /\ data' = NoData
  /\ symbol' = <<>> /\ action' = <<>>
  /\ pos' = 0 /\ cpos' = 0 /\ equity' = <<>> /\ price' = <<>> /\ qty' = 0
  /\ lot_rule' = <<>>
  /\ calls' = <<>>
  /\ response' = NoResponse
  /\ disturbed' = FALSE
  /\ UNCHANGED <<TV_TOKEN, bybit, last_payload, last_result, position, fnVars>>

Init == HandlerInit /\ fnArg = <<>> /\ fnRes = <<>>

Next ==
  \/ \E d \in Payloads : HandleWebhook(d)
  \/ BybitSetIsolatedMarginMode
  \/ BybitSetLeverage
  \/ GetPosition
  \/ CloseGetPosition
  \/ ClosePlace
  \/ Sleep
  \/ GetEquity
  \/ GetLastPrice
  \/ GetQtyRules
  \/ OpenPlace
  \/ Respond
  \/ ExternalFill

Spec == Init /\ [][Next]_vars

(***************************************************************************)
(* Specification of clean_symbol: the input is a concatenation of at most  *)
(* MaxParts parts; clean_symbol is applied to it, then to its own result.  *)
(***************************************************************************)
SymParts ==
  { <<"X">>, <<" ">>, SufDotP, SufDotPerp, SufPerp, <<".", "p">>,
    <<"p", "e", "r", "p">> }

RECURSIVE SymStrings(_)
SymStrings(n) ==
  IF n = 0 THEN {<<>>}
  ELSE LET shorter == SymStrings(n - 1)
       IN shorter \cup {s \o part : s \in shorter, part \in SymParts}

SymInit ==
  /\ HandlerOff
  /\ fnArg \in SymStrings(MaxParts)
  /\ fnRes = <<>>

SymClean ==
  /\ fnRes = <<>>
  /\ fnRes' = <<clean_symbol(fnArg)>>
  /\ UNCHANGED <<fnArg, handlerVars>>

SymCleanAgain ==
  /\ Len(fnRes) = 1
  /\ fnRes' = Append(fnRes, clean_symbol(fnRes[1]))
  /\ UNCHANGED <<fnArg, handlerVars>>

SymNext == SymClean \/ SymCleanAgain

SpecSymbol == SymInit /\ [][SymNext]_vars

(***************************************************************************)
(* Specification of the sizing arithmetic: calc_qty applied to bounded     *)
(* equity, price and lot-size filter, then fmt_number to its quantity.     *)
(***************************************************************************)
SizingPrices == 0..3

SizingLots ==
  [minOrderQty : 0..2, maxOrderQty : 0..2, qtyStep : 0..3]

SizeInit ==
  /\ HandlerOff
  /\ fnArg \in [equity : -1..MaxEquity, price : SizingPrices, lot : SizingLots]
  /\ fnRes = <<>>

SizeCalcQty ==
  /\ fnRes = <<>>
  /\ fnRes' = <<calc_qty(fnArg.equity, fnArg.price, qty_rules(fnArg.lot))>>
  /\ UNCHANGED <<fnArg, handlerVars>>

SizeFmtNumber ==
  /\ Len(fnRes) = 1
  /\ fnRes[1].ok
  /\ fnRes' = Append(fnRes, fmt_number(fnRes[1].qty))
  /\ UNCHANGED <<fnArg, handlerVars>>

SizeNext == SizeCalcQty \/ SizeFmtNumber

SpecSizing == SizeInit /\ [][SizeNext]_vars

(***************************************************************************)
(* Specification of the handler against a steady market: the account's     *)
(* equity and the last price are the same at every read (fnArg holds        *)
(* them), no exchange call fails, every accepted order fills at once, and  *)
(* the position, flat at first, moves by the handler's orders only.        *)
(***************************************************************************)
ExpInit ==
  /\ TV_TOKEN \in {<<>>, <<"s">>}
  /\ bybit = TRUE
  /\ last_payload = <<>>
  /\ last_result = <<>>
  /\ position = [s \in ExchangeSymbols |-> 0]
  /\ HandlerIdle
  /\ fnArg \in [equity : Equities \ {0}, price : Prices \ {0}]
  /\ fnRes = <<>>

\* What a step may read from the steady market.
Steady ==
  /\ equity' \in {<<>>, <<fnArg.equity>>}
  /\ price' \in {<<>>, <<fnArg.price>>}
  /\ \A i \in 1..Len(calls') : calls'[i].ok

ExpNext ==
  \/ (\E d \in Payloads : HandleWebhook(d)) /\ Steady
  \/ BybitSetIsolatedMarginMode /\ Steady
  \/ BybitSetLeverage /\ Steady
  \/ GetPosition /\ Steady
  \/ CloseGetPosition /\ Steady
  \/ ClosePlace /\ Steady
  \/ Sleep /\ Steady
  \/ GetEquity /\ Steady
  \/ GetLastPrice /\ Steady
  \/ GetQtyRules /\ Steady
  \/ OpenPlace /\ Steady
  \/ Respond /\ Steady

SpecExposure == ExpInit /\ [][ExpNext]_vars

(***************************************************************************)
(* Properties.                                                             *)
(***************************************************************************)

\* ---- helpers of the properties ----
IsOrder(c) == c.op = "place_order"

IsClosing(c) == c.op = "place_order" /\ c.reduceOnly

IsOpening(c) == c.op = "place_order" /\ ~c.reduceOnly

Orders == SelectSeq(calls, IsOrder)

ClosingOrders == SelectSeq(calls, IsClosing)

OpeningOrders == SelectSeq(calls, IsOpening)

IsExchangeCall(c) == c.op # "sleep"

ExchangeCalls == SelectSeq(calls, IsExchangeCall)

Ops(cs) == [i \in 1..Len(cs) |-> cs[i].op]

\* A successful call of the given operation is in the log.
Returned(op) == \E i \in 1..Len(calls) : calls[i].op = op /\ calls[i].ok

\* The number a decimal string without sign and fraction denotes, -1 for
\* any other string.
Digits == {"0", "1", "2", "3", "4", "5", "6", "7", "8", "9"}

DigitValue(ch) == CHOOSE d \in 0..9 : DigitChar(d) = ch

RECURSIVE DigitsValue(_)
DigitsValue(str) ==
  IF str = <<>> THEN 0
  ELSE 10 * DigitsValue(SubSeq(str, 1, Len(str) - 1)) + DigitValue(str[Len(str)])

ParseQty(str) ==
  IF str # <<>> /\ \A i \in 1..Len(str) : str[i] \in Digits
  THEN DigitsValue(str)
  ELSE -1

\* The largest whole multiple of step that does not exceed num / den.
FloorToStep(num, den, step) ==
  LET k == CHOOSE n \in 0..num : n * step * den <= num /\ num < (n + 1) * step * den
  IN k * step

\* C5: clean_symbol is idempotent: applying it to its own result changes
\* nothing, for every input, stacked suffixes included.
C5_Idempotent == Len(fnRes) = 2 => fnRes[2] = fnRes[1]

\* C6: clean_symbol strips at most one suffix per call: the result is the
\* trimmed, uppercased input with nothing or exactly one candidate suffix
\* removed from its end.
C6_AtMostOneSuffix ==
  Len(fnRes) >= 1 =>
    LET t == Upper(Strip(fnArg))
    IN \/ fnRes[1] = t
       \/ \E suf \in {SufDotPerp, SufDotP, SufPerp} : t = fnRes[1] \o suf

\* C7: for equity > 0, price > 0 and step > 0 the quantity calc_qty returns
\* is floor(rawQty / step) * step, clamped to maxQty when maxQty > 0, with
\* rawQty = equity * riskFraction * leverage / price, and it never exceeds
\* rawQty.
C7_SizingFormula ==
  (Len(fnRes) >= 1 /\ fnArg.equity > 0 /\ fnArg.price > 0 /\ fnArg.lot.qtyStep > 0) =>
    LET num == fnArg.equity * RiskNum * LEVERAGE
        den == RiskDen * fnArg.price
        floored == FloorToStep(num, den, fnArg.lot.qtyStep)
        expected == IF fnArg.lot.maxOrderQty > 0 /\ fnArg.lot.maxOrderQty < floored
                    THEN fnArg.lot.maxOrderQty ELSE floored
    IN /\ fnRes[1].qty = expected
       /\ fnRes[1].qty * den <= num
       /\ fnRes[1].ok <=> expected >= fnArg.lot.minOrderQty

\* C7 witness: a quantity was returned where rounding cut a fraction off and
\* the clamp to maxQty applied.
C7_Witness ==
  /\ Len(fnRes) >= 1
  /\ fnRes[1].ok
  /\ fnArg.lot.qtyStep > 0
  /\ fnArg.lot.maxOrderQty > 0
  /\ fnRes[1].qty = fnArg.lot.maxOrderQty
  /\ fnRes[1].qty > 0
  /\ (fnArg.equity * RiskNum * LEVERAGE) % (RiskDen * fnArg.price * fnArg.lot.qtyStep) # 0
  /\ fnRes[1].qty * RiskDen * fnArg.price < fnArg.equity * RiskNum * LEVERAGE

(***************************************************************************)
(* Properties of the handler.                                              *)
(***************************************************************************)
\* The token of body d is absent or differs from a configured secret.
TokenRejected(d) ==
  TV_TOKEN # <<>> /\ (d.token = <<>> \/ d.token[1] # TV_TOKEN)

\* A handling is under way or just ended, and it passed authentication.
Authenticated == pc # "idle" /\ ~TokenRejected(data)

KnownActions ==
  {A_LONG, A_SHORT, A_CLOSE, A_CLOSE_LONG, A_CLOSE_SHORT, A_STOP_LONG, A_STOP_SHORT}

CloseFamily == {A_CLOSE, A_CLOSE_LONG, A_CLOSE_SHORT, A_STOP_LONG, A_STOP_SHORT}

\* No position read and no order of this handling raised.
NoGatewayFailure ==
  \A i \in 1..Len(calls) :
    calls[i].op \in {"get_positions", "place_order"} => calls[i].ok

\* C1: a LONG signal handled at position p < 0, the position moving only by
\* the signal's own orders, submits exactly one closing order, which is Buy,
\* reduce-only and of quantity |p|, before any opening order; at p >= 0 it
\* submits no closing order.  SHORT is symmetric (Sell, p > 0).  "Exactly one"
\* is stated for handlings whose position reads and orders did not raise.
C1_Reconciliation ==
  (action \in {A_LONG, A_SHORT} /\ ~disturbed /\ Returned("get_positions")) =>
    LET opposing == IF action = A_LONG THEN pos < 0 ELSE pos > 0
        side == IF action = A_LONG THEN "Buy" ELSE "Sell"
    IN IF opposing
       THEN /\ Len(ClosingOrders) <= 1
            /\ \A i \in 1..Len(calls) :
                 IsClosing(calls[i]) =>
                   /\ calls[i].side = side
                   /\ ParseQty(calls[i].qty) = Abs(pos)
                   /\ calls[i].symbol = symbol
            /\ \A i \in 1..Len(calls) :
                 IsOpening(calls[i]) => \E j \in 1..(i - 1) : IsClosing(calls[j])
            /\ (NoGatewayFailure /\ pc \notin {"close_get_position", "close_place"})
                 => Len(ClosingOrders) = 1
       ELSE ClosingOrders = <<>>

\* C1 witness: a LONG signal found a short position, closed it with one Buy
\* reduce-only order and then opened.
C1_Witness ==
  /\ pc = "done"
  /\ action = A_LONG
  /\ ~disturbed
  /\ pos < 0
  /\ response.status = 200
  /\ Len(ClosingOrders) = 1
  /\ ClosingOrders[1].ok
  /\ Len(OpeningOrders) = 1

\* C2 as stated: an authenticated trading-mode signal that carries an
\* unrecognised action string is Ignored and causes no exchange call of any
\* kind.
C2_Original ==
  (bybit /\ pc = "done" /\ Authenticated /\ data.action # <<>>
    /\ Upper(data.action[1]) \notin KnownActions) =>
    /\ response = [status |-> 200, body |-> "ignored"]
    /\ ExchangeCalls = <<>>

\* C2 amended: an authenticated trading-mode signal whose uppercased action
\* is not one of the seven known names ends as a successful Ignored result
\* that records the action; its only exchange calls are the margin-mode call
\* followed by the leverage call: no position, balance, price or instrument
\* query and no order.
C2_Amended ==
  (bybit /\ Authenticated /\ Upper(Get(data.action, <<>>)) \notin KnownActions) =>
    /\ \A i \in 1..Len(calls) : calls[i].op \in {"set_margin_mode", "set_leverage"}
    /\ pc = "done" =>
         /\ response = [status |-> 200, body |-> "ignored"]
         /\ Ops(calls) = <<"set_margin_mode", "set_leverage">>
         /\ last_result # <<>>
         /\ last_result[1].kind = "ignored"
         /\ last_result[1].action = Upper(Get(data.action, <<>>))

\* C2 witness: SCALE_IN was ignored although the margin-mode call had failed.
C2_Witness ==
  /\ pc = "done"
  /\ bybit
  /\ data.action = <<A_SCALE_IN>>
  /\ response.body = "ignored"
  /\ Len(calls) = 2
  /\ ~calls[1].ok

\* C3: with a non-empty secret, a signal whose token is absent or differs from
\* the secret is rejected with 401, makes no exchange call and leaves
\* last_payload and last_result unchanged; with an empty secret no signal is
\* rejected with 401.
C3_AuthGate ==
  [][ (pc = "idle" /\ pc' # "idle") =>
        IF TokenRejected(data')
        THEN /\ pc' = "done"
             /\ response'.status = 401
             /\ calls' = <<>>
             /\ last_payload' = last_payload
             /\ last_result' = last_result
        ELSE /\ response'.status # 401
             /\ last_payload' = <<data'>> ]_vars

\* C3 witness: a signal with a mismatched token was rejected while an earlier
\* signal's result was stored.
C3_Witness ==
  /\ pc = "done"
  /\ response.status = 401
  /\ data.token = << <<"S">> >>
  /\ last_result # <<>>
  /\ last_payload # <<>>

\* C4: without an exchange session every authenticated signal, whatever its
\* action and symbol, returns success with the receiver_only marker, stores
\* the receiver-only note as last result and makes no exchange call.
C4_ReceiverOnly ==
  ~bybit =>
    /\ calls = <<>>
    /\ pc \in {"idle", "done"}
    /\ (pc = "done" /\ Authenticated) =>
         /\ response = [status |-> 200, body |-> "receiver_only"]
         /\ last_payload = <<data>>
         /\ last_result # <<>>
         /\ last_result[1].kind = "receiver_only"

\* C4 witness: a SHORT signal without a symbol was only recorded.
C4_Witness ==
  /\ ~bybit
  /\ pc = "done"
  /\ data.action = <<A_SHORT>>
  /\ data.symbol = <<>>
  /\ response.body = "receiver_only"

\* C8: a LONG or SHORT signal fails with a 400 sizing error whenever the
\* equity read is <= 0, or the price read is <= 0, or the rounded and clamped
\* quantity is below minQty, and then submits no opening order.
SizingFailed ==
  /\ pc = "done"
  /\ response.status = 400
  /\ OpeningOrders = <<>>

C8_SizingFailure ==
  action \in {A_LONG, A_SHORT} =>
    /\ (equity # <<>> /\ price # <<>> /\ (equity[1] <= 0 \/ price[1] <= 0))
         => SizingFailed
    /\ (lot_rule # <<>> /\ qty < lot_rule[1].min_qty) => SizingFailed

\* C8 witness: a SHORT signal closed a long position and then failed sizing
\* because the rounded quantity was below minQty.
C8_Witness ==
  /\ pc = "done"
  /\ action = A_SHORT
  /\ response = [status |-> 400, body |-> "qty too small after rounding"]
  /\ lot_rule # <<>>
  /\ qty < lot_rule[1].min_qty
  /\ Len(ClosingOrders) = 1
  /\ ClosingOrders[1].ok

\* C9 as stated: a trading-mode signal without a symbol field is rejected
\* with 400 and submits no order (stated for handlings in which no exchange
\* call raised).
C9_Original ==
  (bybit /\ pc = "done" /\ Authenticated /\ data.symbol = <<>>
    /\ Upper(Get(data.action, <<>>)) \in KnownActions
    /\ \A i \in 1..Len(calls) : calls[i].ok) =>
    /\ response.status = 400
    /\ Orders = <<>>

\* C9 amended: a trading-mode signal without a symbol field is not rejected
\* for that: it is handled as a signal for APTUSDT.  Every exchange call of
\* it that names a symbol, its orders included, names APTUSDT, and a 400
\* response to it is one of the sizing or instrument errors.
C9_DefaultSymbol ==
  (bybit /\ Authenticated /\ data.symbol = <<>>) =>
    /\ symbol = APTUSDT
    /\ \A i \in 1..Len(calls) :
         calls[i].op \in {"set_leverage", "get_positions", "get_tickers",
                          "get_instruments_info", "place_order"}
           => calls[i].symbol = APTUSDT
    /\ (pc = "done" /\ response.status = 400) =>
         response.body \in {"cannot fetch equity/price",
                            "qty too small after rounding",
                            "symbol not found in instruments_info"}

\* C9 witness: a LONG signal without a symbol opened a position on APTUSDT.
C9_Witness ==
  /\ pc = "done"
  /\ bybit
  /\ data.symbol = <<>>
  /\ data.action = <<A_LONG>>
  /\ response.status = 200
  /\ Len(OpeningOrders) = 1
  /\ OpeningOrders[1].symbol = APTUSDT
  /\ OpeningOrders[1].ok

\* C10: each of CLOSE, CLOSE_LONG, CLOSE_SHORT, STOP_LONG, STOP_SHORT, whatever
\* direction its name implies: at position p # 0 it submits exactly one
\* reduce-only order of quantity |p| on the side opposite to the position and
\* no opening order; at p = 0 it submits no order and returns the successful
\* "no position to close" result.  p is the position the handler read.
C10_CloseFamily ==
  action \in CloseFamily =>
    /\ OpeningOrders = <<>>
    /\ Len(Orders) <= 1
    /\ \A i \in 1..Len(calls) :
         IsOrder(calls[i]) =>
           /\ calls[i].reduceOnly
           /\ calls[i].symbol = symbol
           /\ cpos # 0
           /\ calls[i].side = (IF cpos > 0 THEN "Sell" ELSE "Buy")
           /\ ParseQty(calls[i].qty) = Abs(cpos)
    /\ (pc = "close_place" /\ ~disturbed) => (cpos = position[symbol] /\ cpos # 0)
    /\ (pc = "done" /\ Returned("get_positions")) =>
         IF cpos # 0
         THEN Len(Orders) = 1
         ELSE /\ Orders = <<>>
              /\ response = [status |-> 200, body |-> "bybit"]
              /\ last_result # <<>>
              /\ last_result[1].bybit = "no position to close"
              /\ last_result[1].action = action

\* C10 witness: STOP_SHORT met a long position and sold it off completely.
C10_Witness ==
  /\ pc = "done"
  /\ action = A_STOP_SHORT
  /\ cpos > 0
  /\ Len(Orders) = 1
  /\ Orders[1].side = "Sell"
  /\ Orders[1].ok
  /\ position[symbol] = 0

\* The result the handler records for a signal with body d when it handles
\* it to the end.
ResultDescribes(res, d) ==
  IF ~bybit THEN res.kind = "receiver_only"
  ELSE LET act == Upper(Get(d.action, <<>>))
           sym == clean_symbol(Get(d.symbol, DefaultSymbol))
       IN /\ res.action = act
          /\ res.kind = (IF act \in {A_LONG, A_SHORT} THEN "open"
                         ELSE IF act \in CloseFamily THEN "close" ELSE "ignored")
          /\ res.kind \in {"open", "close"} => res.symbol = sym

\* C11: whenever no handler is running, last_result describes the same signal
\* as last_payload: every authenticated signal that has been handled to its
\* end, failed ones included, has replaced the last result, so a stored
\* result is never the one an earlier signal produced.
C11_LastResultCurrent ==
  (pc \in {"idle", "done"} /\ last_payload # <<>> /\ last_result # <<>>) =>
    ResultDescribes(last_result[1], last_payload[1])

ConfigOps == {"set_margin_mode", "set_leverage"}

\* Where the handler goes after the leverage call, by the action alone.
AfterConfig(act) ==
  IF act \in {A_LONG, A_SHORT} THEN "get_position"
  ELSE IF act \in CloseFamily THEN "close_get_position" ELSE "done"

\* The configuration calls stand at the head of the log, once each.
ConfigFirst ==
  (bybit /\ Authenticated) =>
    /\ pc = "set_margin_mode" => calls = <<>>
    /\ pc = "set_leverage" => Ops(calls) = <<"set_margin_mode">>
    /\ pc \notin {"set_margin_mode", "set_leverage"} =>
         /\ Len(calls) >= 2
         /\ calls[1].op = "set_margin_mode"
         /\ calls[2].op = "set_leverage"
         /\ calls[2].symbol = symbol
         /\ \A i \in 3..Len(calls) : calls[i].op \notin ConfigOps
    /\ (pc = "done" /\ response.status >= 400) =>
         /\ Len(calls) > 2
         /\ calls[Len(calls)].op \notin ConfigOps

\* A configuration step goes on the same way whether its call failed or not:
\* apart from the logged outcome, the state after it is fixed by the state
\* before it.
ConfigStep ==
  /\ pc = "set_margin_mode" =>
       /\ pc' = "set_leverage"
       /\ Len(calls') = 1
       /\ <<response, last_result, position, symbol, action>>'
            = <<response, last_result, position, symbol, action>>
  /\ pc = "set_leverage" =>
       /\ pc' = AfterConfig(action)
       /\ Len(calls') = 2
       /\ pc' # "done" => <<response, last_result>>' = <<response, last_result>>
       /\ pc' = "done" => response'.status = 200
       /\ <<position, symbol, action>>' = <<position, symbol, action>>

\* C12: on every authenticated trading-mode signal the margin-mode call and
\* then the leverage call are each attempted exactly once, before any position
\* query, sizing query or order, and a failure of either never aborts the
\* signal: the handler continues exactly as after a successful call, and no
\* error response comes from a configuration call.
C12_BestEffort == [][ConfigFirst' /\ ConfigStep]_vars

\* C12 witness: both configuration calls failed and the LONG signal still
\* opened its position.
C12_Witness ==
  /\ pc = "done"
  /\ action = A_LONG
  /\ Len(calls) > 2
  /\ ~calls[1].ok
  /\ ~calls[2].ok
  /\ response.status = 200
  /\ Len(OpeningOrders) = 1
  /\ OpeningOrders[1].ok

\* A position query, sizing query or order of this handling raised.
IsFailedCall(c) == ~c.ok /\ c.op \notin ConfigOps

\* The closing order of this handling went through.
CloseInEffect == Len(ClosingOrders) = 1 /\ ClosingOrders[1].ok

\* State part of C13.
AbortOnFailure ==
  /\ \A i \in 1..Len(calls) :
       IsFailedCall(calls[i]) =>
         /\ i = Len(calls)
         /\ pc = "done"
         /\ response.status = 500
  /\ Len(ClosingOrders) <= 1
  /\ Len(OpeningOrders) <= 1
  /\ (action \in {A_LONG, A_SHORT} /\ pc = "done" /\ response.status >= 400
        /\ CloseInEffect /\ ~disturbed) =>
       /\ position[symbol] = 0
       /\ \A i \in 1..Len(calls) : IsOpening(calls[i]) => ~calls[i].ok
       /\ response.status = 400 => OpeningOrders = <<>>

\* Step part of C13: the step on which a call fails undoes nothing.
FailureKeepsOrders ==
  (pc' = "done" /\ pc # "done" /\ response'.status >= 400) =>
    /\ position' = position
    /\ SubSeq(calls', 1, Len(calls)) = calls

\* C13: when a position query, a balance, price or lot-rule query or an order
\* submission fails, it is the last exchange call of the signal and the
\* response is 500; the orders already issued stay in effect; each signal
\* submits at most one closing and at most one opening order; after a
\* successful close, a failed sizing or opening step leaves the position flat
\* with no opening order in effect.
C13_AbortOnFailure == [][AbortOnFailure' /\ FailureKeepsOrders]_vars

\* C13 witness: a SHORT signal sold off the long position, then its opening
\* order failed: 500, position flat.
C13_Witness ==
  /\ pc = "done"
  /\ action = A_SHORT
  /\ ~disturbed
  /\ response.status = 500
  /\ CloseInEffect
  /\ Len(OpeningOrders) = 1
  /\ ~OpeningOrders[1].ok
  /\ position[symbol] = 0

SizingOps == {"get_wallet_balance", "get_tickers", "get_instruments_info"}

\* The settlement delay stands in the log between entries i and j.
DelayBetween(i, j) == \E k \in (i + 1)..(j - 1) : calls[k].op = "sleep"

\* C14: for a LONG or SHORT signal that needs reconciliation, the closing order
\* is followed at once by the settlement delay, and the equity, last-price and
\* lot-rule reads all come after that delay; the opening order is the last
\* exchange call of the signal and is a market order with reduceOnly = false,
\* of side Buy for LONG and Sell for SHORT.
C14_CallOrdering ==
  action \in {A_LONG, A_SHORT} =>
    /\ \A i \in 1..Len(calls) :
         (IsClosing(calls[i]) /\ calls[i].ok) =>
           IF i = Len(calls) THEN pc = "sleep" ELSE calls[i + 1].op = "sleep"
    /\ \A i \in 1..Len(calls) : \A j \in 1..Len(calls) :
         (IsClosing(calls[i]) /\ (calls[j].op \in SizingOps \/ IsOpening(calls[j])))
           => DelayBetween(i, j)
    /\ (Returned("get_positions") /\ (IF action = A_LONG THEN pos < 0 ELSE pos > 0)) =>
         \A j \in 1..Len(calls) :
           (calls[j].op \in SizingOps \/ IsOpening(calls[j])) => DelayBetween(3, j)
    /\ \A i \in 1..Len(calls) :
         IsOpening(calls[i]) =>
           /\ i = Len(calls)
           /\ pc = "done"
           /\ calls[i].orderType = "Market"
           /\ calls[i].side = (IF action = A_LONG THEN "Buy" ELSE "Sell")
           /\ calls[i].symbol = symbol
           /\ \A op \in SizingOps : \E j \in 1..(i - 1) : calls[j].op = op /\ calls[j].ok

\* C14 witness: a SHORT signal ran the whole sequence: close, delay, the three
\* sizing reads, opening Sell order.
C14_Witness ==
  /\ pc = "done"
  /\ action = A_SHORT
  /\ response.status = 200
  /\ Ops(calls) = <<"set_margin_mode", "set_leverage", "get_positions",
                    "get_positions", "place_order", "sleep", "get_wallet_balance",
                    "get_tickers", "get_instruments_info", "place_order">>
  /\ calls[5].reduceOnly /\ calls[5].side = "Buy"
  /\ ~calls[10].reduceOnly /\ calls[10].side = "Sell"

\* The event loop can take an inbound signal and run its handler.
CanStartSignal == ENABLED (\E d \in Payloads : HandleWebhook(d))

\* C15: the settlement delay blocks only the signal being processed: while a
\* handler is inside the delay, another inbound signal to the same process
\* can start.
C15_DelayBlocksOnlyItsSignal == pc = "sleep" => CanStartSignal

\* C16: no order with quantity zero, a qty string of "0", is ever submitted:
\* not by a close-family action, not by a reconciling close and not by a LONG
\* or SHORT opening order, for every lot rule the exchange can report.
C16_NoZeroQtyOrder ==
  \A i \in 1..Len(calls) :
    IsOrder(calls[i]) => (calls[i].qty # <<"0">> /\ ParseQty(calls[i].qty) > 0)

\* C17: the side of an order is fixed by the signal even when the position
\* changes between the handler's exchange calls: every order submitted while
\* handling a LONG signal has side Buy, and every order submitted while
\* handling a SHORT signal has side Sell (stated for the orders the exchange
\* accepted).
C17_OrderSideBySignal ==
  \A i \in 1..Len(calls) :
    (IsOrder(calls[i]) /\ calls[i].ok) =>
      /\ action = A_LONG => calls[i].side = "Buy"
      /\ action = A_SHORT => calls[i].side = "Sell"

\* C18: every opening order satisfies the lot rule it was sized against: its
\* quantity is a whole multiple of step, at least minQty, and at most maxQty
\* whenever maxQty > 0, for all lot rules with step > 0.
C18_LotRuleConformance ==
  \A i \in 1..Len(calls) :
    (IsOpening(calls[i]) /\ lot_rule # <<>> /\ lot_rule[1].step > 0) =>
      LET q == ParseQty(calls[i].qty)
          rule == lot_rule[1]
      IN /\ q % rule.step = 0
         /\ q >= rule.min_qty
         /\ rule.max_qty > 0 => q <= rule.max_qty

\* C19: with constant equity and price and an exchange that fills every
\* market order fully and at once, after any sequence of handled LONG, SHORT
\* and close-family signals on one symbol the exposure stays within the
\* target: |position| * price <= equity * riskFraction * leverage.
C19_ExposureBound ==
  \A s \in ExchangeSymbols :
    Abs(position[s]) * fnArg.price * RiskDen <= fnArg.equity * RiskNum * LEVERAGE

====
